---------------------------- MODULE Spec2Model ----------------------------
(***************************************************************************)
(* Motion planning and actuator coordination for the SO-101 arms           *)
(* (src/arms/motion.py): SmoothMotion and DualArmController.               *)
(*                                                                         *)
(* The bus (scservo_sdk) is the environment.  A bus call is a transaction  *)
(* record appended to tx; what the bus answers (openPort's result, which   *)
(* reads fail, the positions read) is drawn by the action that issues it.  *)
(***************************************************************************)
EXTENDS Integers, Sequences, FiniteSets, TLC

VARIABLES
    port,   \* per arm: the serial port its SmoothMotion instance was built for
    arm,    \* per arm: the SmoothMotion instance's handles and connected flag
    tx,     \* per arm: the bus transactions and sleeps of the current / latest call
    ret,    \* what the latest finished call returned or raised
    coord,  \* DualArmController: the coordinating caller's position in mirror_move / synchronized_wave
    task,   \* per arm: the thread the coordinator started for it
    fn      \* a pure function under evaluation: its arguments and its result

vars == <<port, arm, tx, ret, coord, task, fn>>

---------------------------------------------------------------------------
(* Control table and joint configuration, motion.py:14-37 *)

ADDR_TORQUE_ENABLE == 40
ADDR_GOAL_POSITION == 42
ADDR_PRESENT_POSITION == 56
ADDR_MOVING_SPEED == 46

JOINTS == <<"shoulder_pan", "shoulder_lift", "elbow_flex", "wrist_flex", "wrist_roll", "gripper">>

JointSet == {JOINTS[i] : i \in 1..Len(JOINTS)}

JOINT_IDS == [name \in JointSet |-> CHOOSE i \in 1..Len(JOINTS) : JOINTS[i] = name]

ArmMin == 500
ArmMax == 3500
GripperMin == 1000
GripperMax == 3000

DEFAULT_LIMITS == [name \in JointSet |-> IF name = "gripper" THEN <<GripperMin, GripperMax>> ELSE <<ArmMin, ArmMax>>]

FallbackMin == 0
FallbackMax == 4095

DEFAULT_SPEED == 250

HomePosition == 2048

---------------------------------------------------------------------------
(* Python values *)

\* max(a, b) and min(a, b)
Max(a, b) == IF a >= b THEN a ELSE b

Min(a, b) == IF a <= b THEN a ELSE b

Abs(a) == IF a < 0 THEN -a ELSE a

Sgn(a) == IF a < 0 THEN -1 ELSE IF a > 0 THEN 1 ELSE 0

\* int(n / d) for d > 0: Python's int() truncates toward zero
TruncDiv(n, d) == IF n >= 0 THEN n \div d ELSE -((-n) \div d)

\* A dict is a sequence of <<key, value>> pairs with distinct keys, in insertion order.
Keys(d) == {d[i][1] : i \in 1..Len(d)}

Has(d, k) == k \in Keys(d)

Get(d, k) == d[CHOOSE i \in 1..Len(d) : d[i][1] = k][2]

\* dict.get(k, default)
GetOr(d, k, default) == IF Has(d, k) THEN Get(d, k) ELSE default

---------------------------------------------------------------------------
(* SmoothMotion._clamp_position, motion.py:109-112 *)

\* the faulty variant: the limits are looked up but the position is passed through
clamp_position_unclamped(joint, position) == position

\* the faulty variant: min and max exchanged, max(max_pos, min(min_pos, position))
clamp_position_swapped(joint, position) ==
    LET lim == IF joint \in DOMAIN DEFAULT_LIMITS THEN DEFAULT_LIMITS[joint] ELSE <<FallbackMin, FallbackMax>>
    IN  Max(lim[2], Min(lim[1], position))

clamp_position(joint, position) ==
    LET lim == IF joint \in DOMAIN DEFAULT_LIMITS THEN DEFAULT_LIMITS[joint] ELSE <<FallbackMin, FallbackMax>>
        min_pos == lim[1]
        max_pos == lim[2]
    IN  Max(min_pos, Min(max_pos, position))

---------------------------------------------------------------------------
(* Floating point.  The generators compute int(start + t * (end - start))  *)
(* in IEEE doubles.  t is a ratio of small integers; when that ratio is    *)
(* dyadic every intermediate value is exact.  When it is not, the double   *)
(* differs from the exact value by a few ulps, which changes int() only    *)
(* where the exact value is an integer: the double may fall short of it,   *)
(* and int() then yields the neighbour toward zero.  Whether it does is    *)
(* drawn by the caller of the generator (lo), not decided here.            *)

RECURSIVE GCD(_, _)
GCD(a, b) == IF b = 0 THEN a ELSE GCD(b, a % b)

RECURSIVE IsPow2(_)
IsPow2(n) == IF n = 1 THEN TRUE ELSE IF n % 2 = 1 THEN FALSE ELSE IsPow2(n \div 2)

\* n / d (d > 0, n >= 0) is exactly representable: its reduced denominator is a power of two
Dyadic(n, d) == IsPow2(d \div GCD(d, n))

\* a shaped time t = n / d with d > 0; exact: the double holding it is n / d exactly
Time(n, d, exact) == [n |-> IF d < 0 THEN -n ELSE n, d |-> Abs(d), exact |-> exact]

\* int(s + t * delta), lo: the double fell short of an integer exact value
FloatInt(s, delta, t, lo) ==
    LET num == s * t.d + t.n * delta
        k == TruncDiv(num, t.d)
    IN  IF lo /\ ~t.exact /\ delta # 0 /\ t.n # 0 /\ num % t.d = 0 /\ k # 0
        THEN k - Sgn(k)
        ELSE k

\* the inner loop shared by the three generators (motion.py:181-185, 204-208, 239-243):
\* one point, over the joints of JOINTS present in both start and end
Point(start, end, t, i, lo) ==
    LET both == SelectSeq(JOINTS, LAMBDA joint : Has(start, joint) /\ Has(end, joint))
    IN  [k \in 1..Len(both) |->
            <<both[k], FloatInt(Get(start, both[k]), Get(end, both[k]) - Get(start, both[k]), t, <<i, both[k]>> \in lo)>>]

\* range(steps + 1) as a sequence of the indices 0..steps (empty when steps < 0)
Range0(steps) == [k \in 1..Max(steps + 1, 0) |-> k - 1]

Ok(value) == [err |-> "none", value |-> value]

Raise(err) == [err |-> err, value |-> <<>>]

---------------------------------------------------------------------------
(* SmoothMotion.linear_interpolate, motion.py:168-186 *)

\* t = i / steps
linear_t(i, steps) == Time(i, steps, Dyadic(i, steps))

\* the faulty variant: the loop runs over range(steps), dropping the last waypoint
linear_interpolate_short(start, end, steps, lo) ==
    IF steps = 0 THEN Raise("ZeroDivisionError")
    ELSE Ok([k \in 1..Max(steps, 0) |-> Point(start, end, linear_t(k - 1, steps), k - 1, lo)])

linear_interpolate(start, end, steps, lo) ==
    IF steps = 0 THEN Raise("ZeroDivisionError")
    ELSE Ok([k \in 1..Len(Range0(steps)) |-> Point(start, end, linear_t(Range0(steps)[k], steps), Range0(steps)[k], lo)])

(* SmoothMotion.cubic_interpolate, motion.py:188-209 *)

\* the faulty variant: t = i // steps, the integer quotient
cubic_t_floordiv(i, steps) ==
    Time(3 * (i \div steps) * (i \div steps) - 2 * (i \div steps) * (i \div steps) * (i \div steps), 1, TRUE)

\* t_smooth = 3 t^2 - 2 t^3 with t = i / steps
cubic_t(i, steps) == Time(3 * i * i * steps - 2 * i * i * i, steps * steps * steps, Dyadic(i, steps))

cubic_interpolate(start, end, steps, lo) ==
    IF steps = 0 THEN Raise("ZeroDivisionError")
    ELSE Ok([k \in 1..Len(Range0(steps)) |-> Point(start, end, cubic_t(Range0(steps)[k], steps), Range0(steps)[k], lo)])

(* SmoothMotion.trapezoidal_velocity, motion.py:211-245 *)
\* accel_fraction is the dyadic fraction af[1] / af[2], so steps * accel_fraction is exact

accel_steps_of(steps, af) == TruncDiv(steps * af[1], af[2])

\* the faulty variant: the deceleration phase without its "1.0 -"
trapezoidal_t_nodecel(i, steps, af) ==
    LET accel_steps == accel_steps_of(steps, af)
    IN  IF i < accel_steps
        THEN Time(i * i * af[1], 2 * accel_steps * accel_steps * af[2], Dyadic(i, accel_steps))
        ELSE IF i > steps - accel_steps
        THEN Time((steps - i) * (steps - i) * af[1], 2 * accel_steps * accel_steps * af[2],
                  Dyadic(Abs(steps - i), accel_steps))
        ELSE Time(af[1] * (steps - 2 * accel_steps) + 2 * (i - accel_steps) * (af[2] - af[1]),
                  2 * af[2] * (steps - 2 * accel_steps),
                  Dyadic(Abs(i - accel_steps), Abs(steps - 2 * accel_steps)))

\* the three phases of motion.py:228-237; the constant phase divides by steps - 2 * accel_steps
trapezoidal_t(i, steps, af) ==
    LET accel_steps == accel_steps_of(steps, af)
    IN  IF i < accel_steps
        THEN Time(i * i * af[1], 2 * accel_steps * accel_steps * af[2], Dyadic(i, accel_steps))
        ELSE IF i > steps - accel_steps
        THEN Time(2 * accel_steps * accel_steps * af[2] - (steps - i) * (steps - i) * af[1],
                  2 * accel_steps * accel_steps * af[2],
                  Dyadic(Abs(steps - i), accel_steps))
        ELSE Time(af[1] * (steps - 2 * accel_steps) + 2 * (i - accel_steps) * (af[2] - af[1]),
                  2 * af[2] * (steps - 2 * accel_steps),
                  Dyadic(Abs(i - accel_steps), Abs(steps - 2 * accel_steps)))

\* the indices of range(steps + 1) that reach the constant phase
ConstantPhase(steps, af) ==
    {i \in 0..steps : ~(i < accel_steps_of(steps, af)) /\ ~(i > steps - accel_steps_of(steps, af))}

trapezoidal_velocity(start, end, steps, af, lo) ==
    IF ConstantPhase(steps, af) # {} /\ steps - 2 * accel_steps_of(steps, af) = 0
    THEN Raise("ZeroDivisionError")
    ELSE Ok([k \in 1..Len(Range0(steps)) |-> Point(start, end, trapezoidal_t(Range0(steps)[k], steps, af), Range0(steps)[k], lo)])

DefaultAccelFraction == <<1, 4>>


---------------------------------------------------------------------------
(* Evaluation of the pure functions: fn holds one call, its arguments drawn *)
(* from the bounded sets below, and after the call its result.              *)

MaxSteps == 8

ClampMargin == 3

\* positions handed to _clamp_position: every servo unit and a margin on both sides
ClampPositions == (FallbackMin - ClampMargin)..(FallbackMax + ClampMargin)

\* joint names handed to _clamp_position: the six joints and one name outside them
ClampJoints == JointSet \cup {"antenna"}

TrajPositions == {0, HomePosition - 1, HomePosition, HomePosition + 400}

TrajConfigs ==
    {<<>>, << <<"elbow_flex", HomePosition>> >>}
    \cup {<< <<"shoulder_pan", p>> >> : p \in TrajPositions}
    \cup {<< <<"gripper", p>>, <<"shoulder_pan", q>> >> : p \in {GripperMin, GripperMax}, q \in {HomePosition, HomePosition + 400}}

Profiles == {"linear", "cubic", "trapezoidal"}

Pending == [err |-> "pending", value |-> <<>>]

ClampCalls ==
    {[name |-> "_clamp_position", args |-> [joint |-> j, position |-> p], pc |-> "call", result |-> Pending] :
        j \in ClampJoints, p \in ClampPositions}

TrajCalls ==
    {[name |-> f, args |-> [start |-> s, end |-> e, steps |-> n], pc |-> "call", result |-> Pending] :
        f \in Profiles, s \in TrajConfigs, e \in TrajConfigs, n \in 1..MaxSteps}

\* the shaped time of a profile's generator at index i
profile_t(profile, i, steps) ==
    IF profile = "linear" THEN linear_t(i, steps)
    ELSE IF profile = "cubic" THEN cubic_t(i, steps)
    ELSE trapezoidal_t(i, steps, DefaultAccelFraction)

\* the <<index, joint>> places of a profile's trajectory where the double's rounding can show
Inexact(profile, start, end, steps) ==
    IF profile \notin Profiles THEN {}
    ELSE {x \in (1..(steps - 1)) \X (Keys(start) \cap Keys(end) \cap JointSet) :
            FloatInt(Get(start, x[2]), Get(end, x[2]) - Get(start, x[2]), profile_t(profile, x[1], steps), TRUE)
                # FloatInt(Get(start, x[2]), Get(end, x[2]) - Get(start, x[2]), profile_t(profile, x[1], steps), FALSE)}

\* accel_fraction values handed to trapezoidal_velocity, from (0, 0.5]
AccelFractions == {<<1, 8>>, <<1, 4>>, <<3, 8>>, <<1, 2>>}

\* calls of trapezoidal_velocity with an explicit accel_fraction
FractionCalls ==
    {[name |-> "trapezoidal_velocity", args |-> [start |-> s, end |-> e, steps |-> n, accel_fraction |-> af],
      pc |-> "call", result |-> Pending] :
        s \in {<< <<"shoulder_pan", HomePosition>> >>}, e \in {<< <<"shoulder_pan", p>> >> : p \in {0, HomePosition + 400}},
        n \in 1..MaxSteps, af \in AccelFractions}

\* the places of a trapezoidal trajectory with accel_fraction af where the double's rounding can show
InexactFraction(start, end, steps, af) ==
    {x \in (1..(steps - 1)) \X (Keys(start) \cap Keys(end) \cap JointSet) :
        FloatInt(Get(start, x[2]), Get(end, x[2]) - Get(start, x[2]), trapezoidal_t(x[1], steps, af), TRUE)
            # FloatInt(Get(start, x[2]), Get(end, x[2]) - Get(start, x[2]), trapezoidal_t(x[1], steps, af), FALSE)}

---------------------------------------------------------------------------
(* State of the controller before any call *)

Arms == {"leader", "follower"}

\* the serial ports a controller can be built for
Ports == {"/dev/ttyACM0", "/dev/ttyACM1"}

\* a controller built for two different ports, leader_port and follower_port
TwoPorts == [a \in Arms |-> IF a = "leader" THEN "/dev/ttyACM0" ELSE "/dev/ttyACM1"]

NoCall == [op |-> "none", arm |-> "none", args |-> <<>>, err |-> "none", value |-> <<>>]

None == "None"

\* what a handler did: the transactions and sleeps it issued, the exception it raised, its value
Outcome(issued, err, value) == [tx |-> issued, err |-> err, value |-> value]

\* no thread: the coordinator has started none for this arm
NoTask == [pc |-> "none", plan |-> Outcome(<<>>, "none", None), sent |-> 0]

\* the coordinator is in no call
Idle == [pc |-> "idle", op |-> "none", args |-> <<>>]

\* SmoothMotion.__init__ (motion.py:53-59) for both arms, DualArmController.__init__ (motion.py:333-335)
InitController ==
    /\ arm = [a \in Arms |-> [port_handler |-> None, packet_handler |-> None, connected |-> FALSE]]
    /\ tx = [a \in Arms |-> <<>>]
    /\ ret = NoCall
    /\ coord = Idle
    /\ task = [a \in Arms |-> NoTask]

NoFn == [name |-> "none", args |-> <<>>, pc |-> "none", result |-> Pending]

---------------------------------------------------------------------------
(* SpecPure: one call of a pure function *)

InitPure ==
    /\ InitController
    /\ port = TwoPorts
    /\ fn \in ClampCalls \cup TrajCalls \cup FractionCalls

ApplyClamp ==
    /\ fn.pc = "call" /\ fn.name = "_clamp_position"
    /\ fn' = [fn EXCEPT !.pc = "return", !.result = Ok(clamp_position(fn.args.joint, fn.args.position))]
    /\ UNCHANGED <<port, arm, tx, ret, coord, task>>

ApplyLinear ==
    /\ fn.pc = "call" /\ fn.name = "linear"
    /\ \E lo \in SUBSET Inexact("linear", fn.args.start, fn.args.end, fn.args.steps) :
        fn' = [fn EXCEPT !.pc = "return", !.result = linear_interpolate(fn.args.start, fn.args.end, fn.args.steps, lo)]
    /\ UNCHANGED <<port, arm, tx, ret, coord, task>>

ApplyCubic ==
    /\ fn.pc = "call" /\ fn.name = "cubic"
    /\ \E lo \in SUBSET Inexact("cubic", fn.args.start, fn.args.end, fn.args.steps) :
        fn' = [fn EXCEPT !.pc = "return", !.result = cubic_interpolate(fn.args.start, fn.args.end, fn.args.steps, lo)]
    /\ UNCHANGED <<port, arm, tx, ret, coord, task>>

ApplyTrapezoidal ==
    /\ fn.pc = "call" /\ fn.name = "trapezoidal"
    /\ \E lo \in SUBSET Inexact("trapezoidal", fn.args.start, fn.args.end, fn.args.steps) :
        fn' = [fn EXCEPT !.pc = "return", !.result = trapezoidal_velocity(fn.args.start, fn.args.end, fn.args.steps, DefaultAccelFraction, lo)]
    /\ UNCHANGED <<port, arm, tx, ret, coord, task>>

\* trapezoidal_velocity(start, end, steps, accel_fraction): it raises before any rounding shows
ApplyTrapezoidalFraction ==
    /\ fn.pc = "call" /\ fn.name = "trapezoidal_velocity"
    /\ LET raised == trapezoidal_velocity(fn.args.start, fn.args.end, fn.args.steps, fn.args.accel_fraction, {}).err # "none"
       IN  \E lo \in (IF raised THEN {{}} ELSE SUBSET InexactFraction(fn.args.start, fn.args.end, fn.args.steps, fn.args.accel_fraction)) :
               fn' = [fn EXCEPT !.pc = "return",
                                !.result = trapezoidal_velocity(fn.args.start, fn.args.end, fn.args.steps, fn.args.accel_fraction, lo)]
    /\ UNCHANGED <<port, arm, tx, ret, coord, task>>

NextPure == ApplyClamp \/ ApplyLinear \/ ApplyCubic \/ ApplyTrapezoidal \/ ApplyTrapezoidalFraction

SpecPure == InitPure /\ [][NextPure]_vars


---------------------------------------------------------------------------
(* The bus.  A handler's outcome is [tx, err, value]: the transactions and  *)
(* sleeps it issued in order, the exception it raised ("none" if it         *)
(* returned) and what it returned.  h is the SmoothMotion instance.         *)
(* A call through packet_handler = None raises AttributeError before any    *)
(* transaction is issued.  A transaction on a port handle that is not open  *)
(* is issued to the SDK and never answers COMM_SUCCESS.  port_handler is    *)
(* None, "closed" (a PortHandler that is not open: never opened, or closed) *)
(* or "open".                                                               *)

Read2(id, addr) == [op |-> "read2", id |-> id, addr |-> addr, value |-> 0, num |-> 0, den |-> 1]

Write1(id, addr, value) == [op |-> "write1", id |-> id, addr |-> addr, value |-> value, num |-> 0, den |-> 1]

Write2(id, addr, value) == [op |-> "write2", id |-> id, addr |-> addr, value |-> value, num |-> 0, den |-> 1]

\* time.sleep(num / den)
Sleep(num, den) == [op |-> "sleep", id |-> 0, addr |-> 0, value |-> 0, num |-> num, den |-> den]

\* print(...): a line on the standard output
Printout == [op |-> "print", id |-> 0, addr |-> 0, value |-> 0, num |-> 0, den |-> 1]

\* first: what ran first; rest: what runs after it if it did not raise
Seq2(first, rest) ==
    IF first.err # "none" THEN first ELSE Outcome(first.tx \o rest.tx, rest.err, rest.value)

\* the joints of a dict or list up to the first name outside JOINT_IDS, and whether there is one
KnownPrefix(names) ==
    LET bad == {k \in 1..Len(names) : names[k] \notin DOMAIN JOINT_IDS}
    IN  IF bad = {} THEN Len(names) ELSE (CHOOSE k \in bad : \A m \in bad : k <= m) - 1

(* SmoothMotion.read_state, motion.py:80-90.  fail: the joints whose read does not answer *)
(* COMM_SUCCESS; present: the position each answering servo reports.  The ArmState's      *)
(* timestamp is the wall clock and is left out.                                           *)

\* the faulty variant: the first failed read aborts the whole read
read_state_abort(h, fail, present) ==
    IF h.packet_handler = None THEN Outcome(<<>>, "AttributeError", <<>>)
    ELSE LET failed == {k \in 1..Len(JOINTS) : h.port_handler # "open" \/ JOINTS[k] \in fail}
             n == IF failed = {} THEN Len(JOINTS) ELSE CHOOSE k \in failed : \A m \in failed : k <= m
         IN  Outcome([k \in 1..n |-> Read2(JOINT_IDS[JOINTS[k]], ADDR_PRESENT_POSITION)],
                     IF failed = {} THEN "none" ELSE "CommError",
                     IF failed = {} THEN [k \in 1..Len(JOINTS) |-> <<JOINTS[k], present[JOINTS[k]]>>] ELSE <<>>)

read_state(h, fail, present) ==
    IF h.packet_handler = None THEN Outcome(<<>>, "AttributeError", <<>>)
    ELSE LET answered == SelectSeq(JOINTS, LAMBDA name : h.port_handler = "open" /\ name \notin fail)
         IN  Outcome([k \in 1..Len(JOINTS) |-> Read2(JOINT_IDS[JOINTS[k]], ADDR_PRESENT_POSITION)],
                     "none",
                     [k \in 1..Len(answered) |-> <<answered[k], present[answered[k]]>>])

(* SmoothMotion.set_torque, motion.py:92-99; joints = None or [] means all of JOINTS *)
set_torque(h, enable, joints) ==
    LET names == IF joints = <<>> THEN JOINTS ELSE joints
        n == KnownPrefix(names)
    IN  IF h.packet_handler = None THEN Outcome(<<>>, "AttributeError", None)
        ELSE Outcome([k \in 1..n |-> Write1(JOINT_IDS[names[k]], ADDR_TORQUE_ENABLE, IF enable THEN 1 ELSE 0)],
                     IF n < Len(names) THEN "KeyError" ELSE "none", None)

(* SmoothMotion.set_speed, motion.py:101-107 *)
set_speed(h, speed, joints) ==
    LET names == IF joints = <<>> THEN JOINTS ELSE joints
        n == KnownPrefix(names)
    IN  IF h.packet_handler = None THEN Outcome(<<>>, "AttributeError", None)
        ELSE Outcome([k \in 1..n |-> Write2(JOINT_IDS[names[k]], ADDR_MOVING_SPEED, speed)],
                     IF n < Len(names) THEN "KeyError" ELSE "none", None)

\* the faulty variant: the goal position is written before the moving speed
move_joint_goal_first(h, joint, position, speed) ==
    IF joint \notin DOMAIN JOINT_IDS THEN Outcome(<<>>, "KeyError", None)
    ELSE IF h.packet_handler = None THEN Outcome(<<>>, "AttributeError", None)
    ELSE Outcome(<<Write2(JOINT_IDS[joint], ADDR_GOAL_POSITION, clamp_position(joint, position)),
                   Write2(JOINT_IDS[joint], ADDR_MOVING_SPEED, speed)>>,
                 "none", None)

(* SmoothMotion.move_joint, motion.py:114-124 *)
move_joint(h, joint, position, speed) ==
    IF joint \notin DOMAIN JOINT_IDS THEN Outcome(<<>>, "KeyError", None)
    ELSE IF h.packet_handler = None THEN Outcome(<<>>, "AttributeError", None)
    ELSE Outcome(<<Write2(JOINT_IDS[joint], ADDR_MOVING_SPEED, speed),
                   Write2(JOINT_IDS[joint], ADDR_GOAL_POSITION, clamp_position(joint, position))>>,
                 "none", None)

DefaultJointSpeed == 300

(* SmoothMotion.move_joints, motion.py:126-129 *)
RECURSIVE move_joints_from(_, _, _, _)
move_joints_from(h, positions, speed, k) ==
    IF k > Len(positions) THEN Outcome(<<>>, "none", None)
    ELSE Seq2(move_joint(h, positions[k][1], positions[k][2], speed), move_joints_from(h, positions, speed, k + 1))

move_joints(h, positions, speed) == move_joints_from(h, positions, speed, 1)


(* SmoothMotion.move_to, motion.py:133-159.  An optional argument is <<>> for None, *)
(* <<speed>> for a speed and <<num, den>> for a wait of num / den seconds.          *)

\* max over the target joints that are in current of abs(target - current[joint]), motion.py:152-156
max_dist_of(positions, current) ==
    LET dists == {Abs(positions[k][2] - Get(current, positions[k][1])) : k \in {m \in 1..Len(positions) : Has(current, positions[m][1])}}
    IN  IF dists = {} THEN 0 ELSE CHOOSE d \in dists : \A e \in dists : d >= e

WaitCapSeconds == 3

\* the faulty variant: the estimate without its cap
estimated_sleep_uncapped(max_dist, speed) == Sleep(5 * max_dist + Max(speed, 1), 10 * Max(speed, 1))

\* min((max_dist / 500) * (250 / max(speed, 1)) + 0.1, 3.0) as a fraction of seconds
estimated_sleep(max_dist, speed) ==
    LET num == 5 * max_dist + Max(speed, 1)
        den == 10 * Max(speed, 1)
    IN  IF num <= WaitCapSeconds * den THEN Sleep(num, den) ELSE Sleep(WaitCapSeconds, 1)

move_to(h, positions, speed, wait, fail, present) ==
    LET sp == IF speed = <<>> THEN DEFAULT_SPEED ELSE speed[1]
        current == read_state(h, fail, present)
    IN  Seq2(move_joints(h, positions, sp),
             IF wait # <<>> THEN Outcome(<<Sleep(wait[1], wait[2])>>, "none", None)
             ELSE Seq2(current, Outcome(<<estimated_sleep(max_dist_of(positions, current.value), sp)>>, "none", None)))

(* SmoothMotion.go_home, motion.py:161-164 *)
go_home(h, speed, fail, present) ==
    move_to(h, [k \in 1..Len(JOINTS) |-> <<JOINTS[k], HomePosition>>], speed, <<>>, fail, present)

(* SmoothMotion.execute_trajectory, motion.py:247-273; dt is the fraction dt[1] / dt[2] *)

\* one waypoint: its joints' goal positions in dict order, then the sleep (motion.py:265-273)
waypoint_tx(h, waypoint, dt) ==
    LET names == [k \in 1..Len(waypoint) |-> waypoint[k][1]]
        n == KnownPrefix(names)
    IN  Outcome([k \in 1..n |-> Write2(JOINT_IDS[names[k]], ADDR_GOAL_POSITION, clamp_position(names[k], waypoint[k][2]))]
                    \o (IF n < Len(names) THEN <<>> ELSE <<Sleep(dt[1], dt[2])>>),
                IF n < Len(names) THEN "KeyError" ELSE "none", None)

\* the faulty variant: the waypoints are taken from the last to the first
RECURSIVE waypoints_from_reversed(_, _, _, _)
waypoints_from_reversed(h, trajectory, dt, k) ==
    IF k > Len(trajectory) THEN Outcome(<<>>, "none", None)
    ELSE Seq2(waypoint_tx(h, trajectory[Len(trajectory) - k + 1], dt), waypoints_from_reversed(h, trajectory, dt, k + 1))

RECURSIVE waypoints_from(_, _, _, _)
waypoints_from(h, trajectory, dt, k) ==
    IF k > Len(trajectory) THEN Outcome(<<>>, "none", None)
    ELSE Seq2(waypoint_tx(h, trajectory[k], dt), waypoints_from(h, trajectory, dt, k + 1))

execute_trajectory(h, trajectory, dt, speed) ==
    Seq2(set_torque(h, TRUE, <<>>), Seq2(set_speed(h, speed, <<>>), waypoints_from(h, trajectory, dt, 1)))

(* SmoothMotion.smooth_move, motion.py:275-306; duration is the dyadic fraction duration[1] / duration[2] *)

UpdateRateHz == 50

MinSteps == 10

\* the faulty variant: the floor of ten steps is missing
steps_of_unfloored(duration) == TruncDiv(duration[1] * UpdateRateHz, duration[2])

\* steps = max(int(duration * 50), 10)
steps_of(duration) == Max(TruncDiv(duration[1] * UpdateRateHz, duration[2]), MinSteps)

smooth_move(h, target, duration, profile, fail, present, lo) ==
    LET current == read_state(h, fail, present)
        steps == steps_of(duration)
        dt == <<duration[1], duration[2] * steps>>
        trajectory ==
            IF profile = "linear" THEN linear_interpolate(current.value, target, steps, lo)
            ELSE IF profile = "cubic" THEN cubic_interpolate(current.value, target, steps, lo)
            ELSE IF profile = "trapezoidal" THEN trapezoidal_velocity(current.value, target, steps, DefaultAccelFraction, lo)
            ELSE Raise("ValueError")
    IN  Seq2(current,
             IF trajectory.err # "none" THEN Outcome(<<>>, trajectory.err, None)
             ELSE execute_trajectory(h, trajectory.value, dt, 0))

(* SmoothMotion.wave, motion.py:308-328 *)

WaveSpeed == 400

DefaultWaveAmplitude == 400

DefaultWaveStepsPerCycle == 25

\* int(400 * math.sin(2 * math.pi * (i / 25))) for i = 0..24, as the doubles give it
DefaultWaveTable ==
    <<0, 99, 192, 273, 337, 380, 399, 392, 361, 308, 235, 147, 50,
      -50, -147, -235, -308, -361, -392, -399, -380, -337, -273, -192, -99>>

\* offset = int(amplitude * math.sin(2 * math.pi * t)), t = i / steps_per_cycle: at the quarter
\* turns the sine is 0, 1, 1.2e-16, -1 and int() drops the residue; the default wave is tabulated
wave_offset(amplitude, i, steps_per_cycle) ==
    CASE steps_per_cycle \in {1, 2} -> 0
      [] steps_per_cycle = 4 -> amplitude * (IF i = 1 THEN 1 ELSE IF i = 3 THEN -1 ELSE 0)
      [] steps_per_cycle = DefaultWaveStepsPerCycle /\ amplitude = DefaultWaveAmplitude -> DefaultWaveTable[i + 1]

wave(h, joint, amplitude, cycles, period, fail, present) ==
    LET current == read_state(h, fail, present)
        center == GetOr(current.value, joint, HomePosition)
        steps_per_cycle == TruncDiv(period[1] * UpdateRateHz, period[2])
        total == Max(cycles, 0) * steps_per_cycle
        swing == [q \in 1..(3 * total) |->
                    LET i == ((q - 1) \div 3) % steps_per_cycle
                        mv == move_joint(h, joint, center + wave_offset(amplitude, i, steps_per_cycle), DefaultJointSpeed).tx
                    IN  IF q % 3 = 0 THEN Sleep(period[1], period[2] * steps_per_cycle) ELSE mv[q % 3]]
    IN  Seq2(current,
        Seq2(set_torque(h, TRUE, <<joint>>),
        Seq2(set_speed(h, WaveSpeed, <<joint>>),
        Seq2(Outcome(swing, "none", None),
        Seq2(move_joint(h, joint, center, DefaultJointSpeed),
        Seq2(Outcome(<<Sleep(3, 10)>>, "none", None),
             set_torque(h, FALSE, <<joint>>)))))))

(* SmoothMotion.connect, motion.py:61-72.  opened: what openPort returns.  The outcome's   *)
(* h is the instance after the call.  A failed open leaves connected as it was.            *)

\* the faulty variant: connected is set before the port is opened
connect_eager(h, opened) ==
    [h |-> [port_handler |-> IF opened THEN "open" ELSE "closed", packet_handler |-> "created", connected |-> TRUE],
     tx |-> IF opened THEN <<>> ELSE <<Printout>>, err |-> "none", value |-> opened]

connect(h, opened) ==
    [h |-> [port_handler |-> IF opened THEN "open" ELSE "closed",
            packet_handler |-> "created",
            connected |-> IF opened THEN TRUE ELSE h.connected],
     tx |-> IF opened THEN <<>> ELSE <<Printout>>, err |-> "none", value |-> opened]

(* SmoothMotion.disconnect, motion.py:74-78 *)

\* the faulty variant: closePort is called without the test of port_handler
disconnect_unguarded(h) ==
    IF h.port_handler = None THEN [h |-> h, tx |-> <<>>, err |-> "AttributeError", value |-> None]
    ELSE [h |-> [h EXCEPT !.port_handler = "closed", !.connected = FALSE], tx |-> <<>>, err |-> "none", value |-> None]

disconnect(h) ==
    [h |-> [h EXCEPT !.port_handler = IF h.port_handler # None THEN "closed" ELSE @, !.connected = FALSE],
     tx |-> <<>>, err |-> "none", value |-> None]


---------------------------------------------------------------------------
(* Inputs of the calls and answers of the bus *)

TargetPositions == {-1, ArmMin - 1, ArmMin, HomePosition, GripperMax + 1, ArmMax, ArmMax + 1}

Speeds == {0, DefaultJointSpeed}

OptSpeeds == {<<>>, <<0>>, <<80>>}

Waits == {<<>>, <<1, 2>>}

MoveConfigs ==
    {<<>>,
     << <<"shoulder_pan", ArmMax + 1>>, <<"gripper", ArmMin>> >>,
     << <<"elbow_flex", HomePosition>>, <<"antenna", HomePosition>>, <<"gripper", ArmMin>> >>}
    \cup {<< <<j, p>> >> : j \in {"wrist_roll", "gripper"}, p \in TargetPositions}

MoveToConfigs ==
    {<<>>,
     << <<"gripper", ArmMin>> >>,
     << <<"shoulder_pan", ArmMax + 1>>, <<"gripper", ArmMin>> >>,
     << <<"elbow_flex", HomePosition>>, <<"antenna", HomePosition>>, <<"gripper", ArmMin>> >>}

FailSets == {{}, {"gripper"}, {"shoulder_pan", "wrist_roll"}, JointSet}

Presents ==
    {[j \in JointSet |-> HomePosition - 1],
     [j \in JointSet |-> IF j = "gripper" THEN 1 ELSE IF j = "wrist_roll" THEN ArmMax - 199 ELSE HomePosition + 401]}

Trajectories ==
    {<<>>,
     << << <<"gripper", ArmMin>> >>, << <<"gripper", GripperMin>> >> >>,
     << << <<"shoulder_pan", HomePosition>>, <<"gripper", GripperMax + 1>> >>, <<>>, << <<"shoulder_pan", ArmMax + 1>> >> >>,
     << << <<"wrist_flex", HomePosition>> >>, << <<"antenna", HomePosition>>, <<"wrist_flex", ArmMin>> >>, << <<"wrist_flex", ArmMax>> >> >>}

Durations == {<<1, 8>>, <<1, 4>>}

SmoothTargets ==
    {<<>>,
     << <<"gripper", ArmMin>> >>,
     << <<"shoulder_pan", ArmMax + 1>>, <<"gripper", GripperMax>> >>,
     << <<"wrist_roll", HomePosition + 400>>, <<"antenna", HomePosition>> >>}

SmoothProfiles == Profiles \cup {"spline"}

MaxCycles == 1

\* <<amplitude, period>>: quarter-turn waves of 0, 1, 2 and 4 steps per cycle, and the default wave
WaveShapes ==
    {<<DefaultWaveAmplitude, <<1, 64>>>>, <<DefaultWaveAmplitude, <<1, 32>>>>, <<DefaultWaveAmplitude, <<3, 64>>>>,
     <<4000, <<3, 32>>>>, <<DefaultWaveAmplitude, <<1, 2>>>>}

WaveJoints == {"wrist_roll", "gripper", "antenna"}

\* the caller's thread and the two threads of the coordinator
Caller == "caller"

ThreadOf(a) == IF a = "leader" THEN "t1" ELSE "t2"

\* the transactions of seq, marked with the thread that issues them
Tag(seq, who) ==
    [k \in 1..Len(seq) |->
        [op |-> seq[k].op, id |-> seq[k].id, addr |-> seq[k].addr, value |-> seq[k].value,
         num |-> seq[k].num, den |-> seq[k].den, by |-> who]]

---------------------------------------------------------------------------
(* Spec: the calls on the two SmoothMotion instances of a DualArmController.  A call made *)
(* by the caller's own thread runs to its end in one step.                                 *)

Init ==
    /\ InitController
    /\ port = TwoPorts
    /\ fn = NoFn

(* tx and ret describe one call: its log and its result stay until the caller drops them   *)
(* (Discard), which changes nothing of the program.  A call that uses the bus starts from  *)
(* a dropped result.  The connection calls leave no log and may follow one another          *)
(* directly, and a coordinated move may directly follow DualArmController.connect, so that *)
(* what connect returned is still in ret while the move runs.                              *)

ConnectionOps == {"none", "connect", "disconnect", "dual_connect", "dual_disconnect"}

\* the caller is in no call, and the latest result is of one of the operations ops
ReadyAfter(ops) == coord.pc = "idle" /\ ret.op \in ops

\* the caller can start a call that uses the bus
Ready == ReadyAfter({"none"})

\* the caller can start a connection call
ReadyToConnect == ReadyAfter(ConnectionOps)

\* the caller can start a coordinated move
ReadyToCoordinate == ReadyAfter({"none", "dual_connect"})

\* a call of the caller's thread on arm a with outcome o, which leaves the instance as it is
Called(a, opname, args, o) ==
    /\ tx' = [b \in Arms |-> IF b = a THEN Tag(o.tx, Caller) ELSE <<>>]
    /\ ret' = [op |-> opname, arm |-> a, args |-> args, err |-> o.err, value |-> o.value]
    /\ task' = [b \in Arms |-> NoTask]
    /\ UNCHANGED <<port, arm, coord, fn>>

\* a call that changes the instance: connect, disconnect; args.self is the instance as the call found it
Rebound(a, opname, args, o) ==
    /\ arm' = [arm EXCEPT ![a] = o.h]
    /\ tx' = [b \in Arms |-> IF b = a THEN Tag(o.tx, Caller) ELSE <<>>]
    /\ ret' = [op |-> opname, arm |-> a, args |-> args, err |-> o.err, value |-> o.value]
    /\ task' = [b \in Arms |-> NoTask]
    /\ UNCHANGED <<port, coord, fn>>

Connect(a) ==
    /\ ReadyToConnect
    /\ \E opened \in BOOLEAN : Rebound(a, "connect", [self |-> arm[a]], connect(arm[a], opened))

Disconnect(a) ==
    /\ ReadyToConnect
    /\ Rebound(a, "disconnect", [self |-> arm[a]], disconnect(arm[a]))

ReadState(a) ==
    /\ Ready
    /\ \E fail \in SUBSET JointSet, present \in Presents :
           Called(a, "read_state", [fail |-> fail, present |-> present], read_state(arm[a], fail, present))

SetTorque(a) ==
    /\ Ready
    /\ \E enable \in BOOLEAN, joints \in {<<>>, <<"gripper">>, <<"wrist_roll", "antenna", "gripper">>} :
           Called(a, "set_torque", [enable |-> enable, joints |-> joints], set_torque(arm[a], enable, joints))

SetSpeed(a) ==
    /\ Ready
    /\ \E speed \in Speeds, joints \in {<<>>, <<"gripper">>, <<"wrist_roll", "antenna", "gripper">>} :
           Called(a, "set_speed", [speed |-> speed, joints |-> joints], set_speed(arm[a], speed, joints))

MoveJoint(a) ==
    /\ Ready
    /\ \E joint \in ClampJoints, position \in TargetPositions, speed \in Speeds :
           Called(a, "move_joint", [joint |-> joint, position |-> position, speed |-> speed], move_joint(arm[a], joint, position, speed))

MoveJoints(a) ==
    /\ Ready
    /\ \E positions \in MoveConfigs, speed \in Speeds :
           Called(a, "move_joints", [positions |-> positions, speed |-> speed], move_joints(arm[a], positions, speed))

MoveTo(a) ==
    /\ Ready
    /\ \E positions \in MoveToConfigs, speed \in OptSpeeds, wait \in Waits, fail \in FailSets, present \in Presents :
           Called(a, "move_to", [positions |-> positions, speed |-> speed, wait |-> wait, fail |-> fail, present |-> present],
                  move_to(arm[a], positions, speed, wait, fail, present))

GoHome(a) ==
    /\ Ready
    /\ \E speed \in OptSpeeds, fail \in FailSets, present \in Presents :
           Called(a, "go_home", [speed |-> speed, fail |-> fail, present |-> present], go_home(arm[a], speed, fail, present))

\* what the bus answers the writes of a call: COMM_SUCCESS to all of them (at = 0), or to the
\* at-th transaction a result that is not COMM_SUCCESS: COMM_RX_TIMEOUT, the servo did not
\* acknowledge; COMM_TX_FAIL, the packet could not be put on the port
WriteFaults ==
    {[at |-> 0, result |-> "COMM_SUCCESS"]}
    \cup {[at |-> k, result |-> r] : k \in {1, 13, 14}, r \in {"COMM_RX_TIMEOUT", "COMM_TX_FAIL"}}

\* the write results are returned by write1ByteTxRx / write2ByteTxRx and dropped
\* (motion.py:97-99, 105-107, 267-272): the fault changes nothing of what the call does
ExecuteTrajectory(a) ==
    /\ Ready
    /\ \E trajectory \in Trajectories, dt \in {<<1, 50>>, <<0, 1>>}, speed \in Speeds, fault \in WriteFaults :
           LET o == execute_trajectory(arm[a], trajectory, dt, speed)
           IN  /\ fault.at \in {0} \cup {k \in 1..Len(o.tx) : o.tx[k].op \in {"write1", "write2"}}
               /\ Called(a, "execute_trajectory", [trajectory |-> trajectory, dt |-> dt, speed |-> speed, fault |-> fault], o)

SmoothMove(a) ==
    /\ Ready
    /\ \E target \in SmoothTargets, duration \in Durations, profile \in SmoothProfiles, fail \in FailSets, present \in Presents :
           \E lo \in SUBSET Inexact(profile, read_state(arm[a], fail, present).value, target, steps_of(duration)) :
               Called(a, "smooth_move", [target |-> target, duration |-> duration, profile |-> profile, fail |-> fail, present |-> present],
                      smooth_move(arm[a], target, duration, profile, fail, present, lo))

Wave(a) ==
    /\ Ready
    /\ \E joint \in WaveJoints, shape \in WaveShapes, cycles \in 0..MaxCycles, fail \in FailSets, present \in Presents :
           Called(a, "wave", [joint |-> joint, amplitude |-> shape[1], cycles |-> cycles, period |-> shape[2], fail |-> fail, present |-> present],
                  wave(arm[a], joint, shape[1], cycles, shape[2], fail, present))


---------------------------------------------------------------------------
(* DualArmController, motion.py:330-369 *)

\* the faulty variant: leader.connect() or follower.connect()
dual_connect_or(arms, opened) ==
    LET l == connect(arms["leader"], opened["leader"])
        f == connect(arms["follower"], opened["follower"])
    IN  IF l.value
        THEN [arm |-> [arms EXCEPT !["leader"] = l.h], tx |-> [leader |-> l.tx, follower |-> <<>>], err |-> "none",
              value |-> [returned |-> l.value, calls |-> << <<"leader", l.value>> >>]]
        ELSE [arm |-> [arms EXCEPT !["leader"] = l.h, !["follower"] = f.h], tx |-> [leader |-> l.tx, follower |-> f.tx], err |-> "none",
              value |-> [returned |-> f.value, calls |-> << <<"leader", l.value>>, <<"follower", f.value>> >>]]

(* DualArmController.connect, motion.py:337-338: leader.connect() and follower.connect().   *)
(* opened: what openPort would return on each arm; calls: the connects made, in order, each *)
(* with what it returned.                                                                   *)
dual_connect(arms, opened) ==
    LET l == connect(arms["leader"], opened["leader"])
        f == connect(arms["follower"], opened["follower"])
    IN  IF l.value
        THEN [arm |-> [arms EXCEPT !["leader"] = l.h, !["follower"] = f.h], tx |-> [leader |-> l.tx, follower |-> f.tx], err |-> "none",
              value |-> [returned |-> f.value, calls |-> << <<"leader", l.value>>, <<"follower", f.value>> >>]]
        ELSE [arm |-> [arms EXCEPT !["leader"] = l.h], tx |-> [leader |-> l.tx, follower |-> <<>>], err |-> "none",
              value |-> [returned |-> l.value, calls |-> << <<"leader", l.value>> >>]]

(* DualArmController.disconnect, motion.py:340-342 *)
dual_disconnect(arms) ==
    LET l == disconnect(arms["leader"])
        f == disconnect(arms["follower"])
    IN  IF l.err # "none" THEN [arm |-> [arms EXCEPT !["leader"] = l.h], err |-> l.err, value |-> None]
        ELSE [arm |-> [arms EXCEPT !["leader"] = l.h, !["follower"] = f.h], err |-> f.err, value |-> None]

DualConnect ==
    /\ ReadyToConnect
    /\ \E opened \in [Arms -> BOOLEAN] :
        LET o == dual_connect(arm, opened)
        IN  /\ arm' = o.arm
            /\ tx' = [b \in Arms |-> Tag(o.tx[b], Caller)]
            /\ ret' = [op |-> "dual_connect", arm |-> "both", args |-> <<>>, err |-> o.err, value |-> o.value]
            /\ task' = [b \in Arms |-> NoTask]
            /\ UNCHANGED <<port, coord, fn>>

DualDisconnect ==
    /\ ReadyToConnect
    /\ LET o == dual_disconnect(arm)
       IN  /\ arm' = o.arm
           /\ tx' = [b \in Arms |-> <<>>]
           /\ ret' = [op |-> "dual_disconnect", arm |-> "both", args |-> <<>>, err |-> o.err, value |-> o.value]
           /\ task' = [b \in Arms |-> NoTask]
           /\ UNCHANGED <<port, coord, fn>>

(* mirror_move (motion.py:344-357) and synchronized_wave (motion.py:359-369).  The caller   *)
(* builds the two threads, starts t1, starts t2, joins t1, joins t2.  A thread runs its     *)
(* arm's handler; what the bus will answer it is drawn when it starts, its plan is the      *)
(* handler's outcome, and it issues the plan one stretch at a time, a stretch ending with   *)
(* each sleep.  An exception ends the thread; join() does not pass it on.                   *)

MirrorTargets == {<< <<"gripper", ArmMin>> >>, << <<"shoulder_pan", ArmMax + 1>>, <<"wrist_roll", HomePosition>> >>}

MirrorDurations == {<<1, 8>>}

ThreadFails == {{}, {"wrist_roll", "gripper"}}

ThreadPresents == {[j \in JointSet |-> IF j = "wrist_roll" THEN ArmMax - 199 ELSE HomePosition + 1]}

DefaultWaveJoint == "wrist_roll"

DefaultWavePeriod == <<1, 2>>

DefaultProfile == "cubic"

\* threading.Thread(...) twice: the threads exist and have not been started
MirrorMove ==
    /\ ReadyToCoordinate
    /\ \E target \in MirrorTargets, duration \in MirrorDurations :
        /\ coord' = [pc |-> "start_t1", op |-> "mirror_move", args |-> [target |-> target, duration |-> duration]]
        /\ task' = [a \in Arms |-> [NoTask EXCEPT !.pc = "created"]]
        /\ tx' = [a \in Arms |-> <<>>]
        /\ UNCHANGED <<port, arm, ret, fn>>

SynchronizedWave ==
    /\ ReadyToCoordinate
    /\ \E cycles \in 0..MaxCycles :
        /\ coord' = [pc |-> "start_t1", op |-> "synchronized_wave", args |-> [cycles |-> cycles]]
        /\ task' = [a \in Arms |-> [NoTask EXCEPT !.pc = "created"]]
        /\ tx' = [a \in Arms |-> <<>>]
        /\ UNCHANGED <<port, arm, ret, fn>>

\* the states a SmoothMotion instance can be in
Handles == [port_handler : {None, "closed", "open"}, packet_handler : {None, "created"}, connected : BOOLEAN]

\* <<h, target, duration, outcome>>: every outcome of move_arm(arm, target), that is
\* arm.smooth_move(target, duration) with the default profile, on an instance in state h
MirrorPlans ==
    UNION {UNION {{<<c[1], c[2], c[3], smooth_move(c[1], c[2], c[3], DefaultProfile, env[1], env[2], lo)>> :
                    lo \in SUBSET Inexact(DefaultProfile, read_state(c[1], env[1], env[2]).value, c[2], steps_of(c[3]))} :
                env \in ThreadFails \X ThreadPresents} :
           c \in Handles \X MirrorTargets \X MirrorDurations}

\* what the thread of arm a will do: move_arm(arm, target) or arm.wave(cycles=cycles)
ThreadPlans(a) ==
    IF coord.op = "mirror_move"
    THEN {e[4] : e \in {x \in MirrorPlans : x[1] = arm[a] /\ x[2] = coord.args.target /\ x[3] = coord.args.duration}}
    ELSE {wave(arm[a], DefaultWaveJoint, DefaultWaveAmplitude, coord.args.cycles, DefaultWavePeriod, fail, present) :
            fail \in ThreadFails, present \in ThreadPresents}

\* t1.start() then t2.start(), motion.py:354-355, 366-367
StartThread(a, at, next) ==
    /\ coord.pc = at
    /\ task[a].pc = "created"
    /\ \E plan \in ThreadPlans(a) : task' = [task EXCEPT ![a] = [pc |-> "running", plan |-> plan, sent |-> 0]]
    /\ coord' = [coord EXCEPT !.pc = next]
    /\ UNCHANGED <<port, arm, tx, ret, fn>>

StartT1 == StartThread("leader", "start_t1", "start_t2")

StartT2 == StartThread("follower", "start_t2", "join_t1")

\* the end of the stretch that starts after the first sent entries of a plan: its next sleep, or its end
StretchEnd(plan, sent) ==
    LET sleeps == {k \in (sent + 1)..Len(plan.tx) : plan.tx[k].op = "sleep"}
    IN  IF sleeps = {} THEN Len(plan.tx) ELSE CHOOSE k \in sleeps : \A m \in sleeps : k <= m

\* the faulty variant: both threads were given the leader's instance
ThreadStep_onLeader(a) ==
    /\ task[a].pc = "running"
    /\ task[a].sent < Len(task[a].plan.tx)
    /\ LET upto == StretchEnd(task[a].plan, task[a].sent)
       IN  /\ tx' = [tx EXCEPT !["leader"] = @ \o Tag(SubSeq(task[a].plan.tx, task[a].sent + 1, upto), ThreadOf(a))]
           /\ task' = [task EXCEPT ![a].sent = upto]
    /\ UNCHANGED <<port, arm, ret, coord, fn>>

\* a running thread issues its next stretch on its own arm's connection
ThreadStep(a) ==
    /\ task[a].pc = "running"
    /\ task[a].sent < Len(task[a].plan.tx)
    /\ LET upto == StretchEnd(task[a].plan, task[a].sent)
       IN  /\ tx' = [tx EXCEPT ![a] = @ \o Tag(SubSeq(task[a].plan.tx, task[a].sent + 1, upto), ThreadOf(a))]
           /\ task' = [task EXCEPT ![a].sent = upto]
    /\ UNCHANGED <<port, arm, ret, coord, fn>>

\* the faulty variant: a thread at its end waits for the other to come to a normal end
ThreadEnd_barrier(a) ==
    /\ task[a].pc = "running"
    /\ task[a].sent = Len(task[a].plan.tx)
    /\ \A b \in Arms : task[b].plan.err = "none"
    /\ task' = [task EXCEPT ![a].pc = "ended"]
    /\ UNCHANGED <<port, arm, tx, ret, coord, fn>>

\* the thread's target returns or raises: the thread ends
ThreadEnd(a) ==
    /\ task[a].pc = "running"
    /\ task[a].sent = Len(task[a].plan.tx)
    /\ task' = [task EXCEPT ![a].pc = "ended"]
    /\ UNCHANGED <<port, arm, tx, ret, coord, fn>>

\* the faulty variant: the join does not wait for the thread
Joinable_nowait(a) == task[a].pc \in {"running", "ended"}

\* Thread.join() returns once the thread has ended
Joinable(a) == task[a].pc = "ended"

\* t1.join(), motion.py:356, 368
JoinT1 ==
    /\ coord.pc = "join_t1"
    /\ Joinable("leader")
    /\ coord' = [coord EXCEPT !.pc = "join_t2"]
    /\ UNCHANGED <<port, arm, tx, ret, task, fn>>

\* t2.join() and the return, motion.py:357, 369: the call returns None whatever the threads did
JoinT2 ==
    /\ coord.pc = "join_t2"
    /\ Joinable("follower")
    /\ coord' = Idle
    /\ ret' = [op |-> coord.op, arm |-> "both", args |-> coord.args, err |-> "none", value |-> None]
    /\ UNCHANGED <<port, arm, tx, task, fn>>

\* the caller drops the result and the log of the finished call
Discard ==
    /\ coord.pc = "idle"
    /\ ret.op # "none"
    /\ ret' = NoCall
    /\ tx' = [a \in Arms |-> <<>>]
    /\ task' = [a \in Arms |-> NoTask]
    /\ UNCHANGED <<port, arm, coord, fn>>

Next ==
    \/ \E a \in Arms : Connect(a)
    \/ \E a \in Arms : Disconnect(a)
    \/ \E a \in Arms : ReadState(a)
    \/ \E a \in Arms : SetTorque(a)
    \/ \E a \in Arms : SetSpeed(a)
    \/ \E a \in Arms : MoveJoint(a)
    \/ \E a \in Arms : MoveJoints(a)
    \/ \E a \in Arms : MoveTo(a)
    \/ \E a \in Arms : GoHome(a)
    \/ \E a \in Arms : ExecuteTrajectory(a)
    \/ \E a \in Arms : SmoothMove(a)
    \/ \E a \in Arms : Wave(a)
    \/ DualConnect
    \/ DualDisconnect
    \/ MirrorMove
    \/ SynchronizedWave
    \/ StartT1
    \/ StartT2
    \/ \E a \in Arms : ThreadStep(a)
    \/ \E a \in Arms : ThreadEnd(a)
    \/ JoinT1
    \/ JoinT2
    \/ Discard

Spec == Init /\ [][Next]_vars

---------------------------------------------------------------------------
(* SpecMirror: each arm's connect and mirror_move under the scheduling the threads get.   *)
(* A thread that can run is run (every bus call and sleep returns), and the caller's      *)
(* thread goes on through start, start, join, join whenever its next step is possible.    *)
(* What the caller does between two calls is under no obligation.                         *)

NextMirror ==
    \/ \E a \in Arms : Connect(a)
    \/ MirrorMove
    \/ StartT1
    \/ StartT2
    \/ \E a \in Arms : ThreadStep(a)
    \/ \E a \in Arms : ThreadEnd(a)
    \/ JoinT1
    \/ JoinT2
    \/ Discard

\* the caller's thread inside mirror_move: one sequential process
CallerThread == StartT1 \/ StartT2 \/ JoinT1 \/ JoinT2

\* the thread running one arm's move_to: one sequential process
Worker(a) == ThreadStep(a) \/ ThreadEnd(a)

Scheduling ==
    /\ WF_vars(CallerThread)
    /\ \A a \in Arms : WF_vars(Worker(a))

SpecMirror == Init /\ [][NextMirror]_vars /\ Scheduling

---------------------------------------------------------------------------
(* SpecPorts: the connection calls on a controller built for any two ports, the same port *)
(* for both arms included (DualArmController.__init__ takes any two port names).          *)

InitPorts ==
    /\ InitController
    /\ port \in [Arms -> Ports]
    /\ fn = NoFn

NextPorts ==
    \/ \E a \in Arms : Connect(a)
    \/ \E a \in Arms : Disconnect(a)
    \/ DualConnect
    \/ DualDisconnect

SpecPorts == InitPorts /\ [][NextPorts]_vars


---------------------------------------------------------------------------
(* Properties *)

\* the goal-position writes among the transactions of arm a
GoalWrites(a) == {k \in 1..Len(tx[a]) : tx[a][k].op = "write2" /\ tx[a][k].addr = ADDR_GOAL_POSITION}

\* position p is inside the safe range of joint
InSafeRange(joint, p) == DEFAULT_LIMITS[joint][1] <= p /\ p <= DEFAULT_LIMITS[joint][2]

\* C1: every value written to a joint's goal-position register, by any move operation of
\* either arm and for any target, lies inside that joint's safe range.
C1_GoalWritesInSafeRange ==
    \A a \in Arms : \A k \in GoalWrites(a) : InSafeRange(JOINTS[tx[a][k].id], tx[a][k].value)

\* a gripper target of 500 has been sent by move_joint, and what was written is 1000
C1_Witness ==
    /\ ret.op = "move_joint" /\ ret.err = "none"
    /\ ret.args.joint = "gripper" /\ ret.args.position = ArmMin
    /\ \E k \in GoalWrites(ret.arm) :
        tx[ret.arm][k].id = JOINT_IDS["gripper"] /\ tx[ret.arm][k].value = GripperMin

\* a generator has returned a trajectory
Generated == fn.pc = "return" /\ fn.name \in Profiles /\ fn.result.err = "none"

\* the joints present in both start and end of the generator call
BothJoints == Keys(fn.args.start) \cap Keys(fn.args.end)

\* C2: for every start, end and steps >= 1, waypoint 0 of each generator's trajectory equals
\* start and waypoint steps equals end, for every joint present in both.
C2_EndpointsExact ==
    Generated =>
        \A j \in BothJoints :
            /\ Get(fn.result.value[1], j) = Get(fn.args.start, j)
            /\ Get(fn.result.value[fn.args.steps + 1], j) = Get(fn.args.end, j)

\* C3: for every steps >= 1 each generator returns exactly steps + 1 waypoints, and every
\* waypoint covers exactly the joints present in both start and end.
C3_LengthAndCoverage ==
    (fn.pc = "return" /\ fn.name \in Profiles) =>
        /\ fn.result.err = "none"
        /\ Len(fn.result.value) = fn.args.steps + 1
        /\ \A k \in 1..Len(fn.result.value) : Keys(fn.result.value[k]) = BothJoints

\* trapezoidal_velocity has returned 4 waypoints for steps = 3, each over the one joint that
\* start (two joints) and end (one joint) share
C3_Witness ==
    /\ Generated /\ fn.name = "trapezoidal" /\ fn.args.steps = 3
    /\ Len(fn.args.start) = 2 /\ Len(fn.args.end) = 1
    /\ Len(fn.result.value) = 4
    /\ \A k \in 1..4 : Keys(fn.result.value[k]) = {"shoulder_pan"}

\* the position of joint j in waypoint i (0..steps) of the returned trajectory
Way(i, j) == Get(fn.result.value[i + 1], j)

\* joint j's start and end position in the generator call
StartOf(j) == Get(fn.args.start, j)

EndOf(j) == Get(fn.args.end, j)

\* C11: for every start, end, steps >= 1 and index i, linear_interpolate's waypoint i for a
\* joint is start + (i / steps) * (end - start) rounded to the nearest integer, that is,
\* at most one half away from the exact value.
C11_LinearRoundsToNearest ==
    (Generated /\ fn.name = "linear") =>
        \A i \in 0..fn.args.steps : \A j \in BothJoints :
            2 * Abs(Way(i, j) * fn.args.steps - (StartOf(j) * fn.args.steps + i * (EndOf(j) - StartOf(j))))
                <= fn.args.steps

\* p lies strictly between a and b
StrictlyBetween(p, a, b) == Min(a, b) < p /\ p < Max(a, b)

\* cubic_interpolate has returned for an even number of steps
CubicEven == Generated /\ fn.name = "cubic" /\ fn.args.steps % 2 = 0

\* C12: for every even steps >= 2 and every joint with start # end, the cubic_interpolate
\* waypoint at index steps / 2 is strictly between start and end.
C12_MidpointStrictlyBetween ==
    CubicEven =>
        \A j \in BothJoints :
            StartOf(j) # EndOf(j) => StrictlyBetween(Way(fn.args.steps \div 2, j), StartOf(j), EndOf(j))

\* C12 as amended: for every even steps >= 2 and every joint whose start and end are at least
\* two units apart, the cubic_interpolate waypoint at index steps / 2 is strictly between them.
C12_MidpointBetweenWhenApart ==
    CubicEven =>
        \A j \in BothJoints :
            Abs(EndOf(j) - StartOf(j)) >= 2 => StrictlyBetween(Way(fn.args.steps \div 2, j), StartOf(j), EndOf(j))

\* cubic_interpolate from 2047 to 2448 in 2 steps has returned 2247 at index 1
C12_Witness ==
    /\ CubicEven /\ fn.args.steps = 2
    /\ fn.args.start = << <<"shoulder_pan", HomePosition - 1>> >>
    /\ fn.args.end = << <<"shoulder_pan", HomePosition + 400>> >>
    /\ Way(1, "shoulder_pan") = 2247

\* C13: for each of the three profiles and every steps >= 1, each joint's waypoints are
\* monotone in the index (non-decreasing when end >= start, non-increasing otherwise) and
\* none lies outside the interval between start and end.
C13_Monotone ==
    Generated =>
        \A j \in BothJoints :
            /\ \A i \in 0..(fn.args.steps - 1) :
                IF EndOf(j) >= StartOf(j) THEN Way(i, j) <= Way(i + 1, j) ELSE Way(i, j) >= Way(i + 1, j)
            /\ \A i \in 0..fn.args.steps :
                Min(StartOf(j), EndOf(j)) <= Way(i, j) /\ Way(i, j) <= Max(StartOf(j), EndOf(j))

\* trapezoidal_velocity has returned 9 waypoints that go down from 2448 to 0, through all three phases
C13_Witness ==
    /\ Generated /\ fn.name = "trapezoidal" /\ fn.args.steps = 8
    /\ fn.args.start = << <<"shoulder_pan", HomePosition + 400>> >>
    /\ fn.args.end = << <<"shoulder_pan", 0>> >>
    /\ \A i \in 0..7 : Way(i, "shoulder_pan") > Way(i + 1, "shoulder_pan")
    /\ Way(8, "shoulder_pan") = 0

\* C14: in trapezoidal_velocity the first difference of successive waypoints at the boundary
\* between the acceleration phase and the constant-velocity phase (the step that enters the
\* constant phase) differs from the constant phase's first difference by at most one unit.
C14_BoundaryVelocity ==
    LET a == accel_steps_of(fn.args.steps, DefaultAccelFraction)
    IN  (Generated /\ fn.name = "trapezoidal" /\ a >= 1 /\ a + 1 <= fn.args.steps - a) =>
            \A j \in BothJoints :
                Abs((Way(a, j) - Way(a - 1, j)) - (Way(a + 1, j) - Way(a, j))) <= 1

\* C4: for every one of the six joints and every position p, _clamp_position(j, p) lies in
\* j's safe range, equals p when p is in the range, and is otherwise the nearer boundary.
C4_ClampToSafeRange ==
    (fn.pc = "return" /\ fn.name = "_clamp_position" /\ fn.args.joint \in JointSet) =>
        LET p == fn.args.position
            out == fn.result.value
            lim == DEFAULT_LIMITS[fn.args.joint]
        IN  /\ fn.result.err = "none"
            /\ InSafeRange(fn.args.joint, out)
            /\ (InSafeRange(fn.args.joint, p) => out = p)
            /\ (p < lim[1] => out = lim[1])
            /\ (p > lim[2] => out = lim[2])

\* _clamp_position("gripper", 500) has returned 1000
C4_Witness ==
    /\ fn.pc = "return" /\ fn.name = "_clamp_position"
    /\ fn.args.joint = "gripper" /\ fn.args.position = ArmMin
    /\ fn.result.value = GripperMin

\* the sleeps among the transactions of arm a
Sleeps(a) == {k \in 1..Len(tx[a]) : tx[a][k].op = "sleep"}

\* move_to has returned from a call without an explicit wait (go_home makes such a call)
EstimatedWait == ret.op = "go_home" \/ (ret.op = "move_to" /\ ret.args.wait = <<>>)

\* C15: when move_to is called without an explicit wait, it sleeps once, after the commands
\* and the state read, and for no more than 3 seconds, whatever the targets, the speed
\* (0 included) and the positions read.
C15_SleepCapped ==
    EstimatedWait =>
        /\ \A k \in Sleeps(ret.arm) :
            /\ k = Len(tx[ret.arm])
            /\ 0 < tx[ret.arm][k].num
            /\ tx[ret.arm][k].num <= 3 * tx[ret.arm][k].den
        /\ (ret.err = "none" => Sleeps(ret.arm) # {})

\* move_to at speed 0 with the gripper 499 units from its target has slept exactly 3 seconds,
\* where the estimate is 249.6 seconds
C15_Witness ==
    /\ ret.op = "move_to" /\ ret.err = "none"
    /\ ret.args.wait = <<>> /\ ret.args.speed = <<0>>
    /\ ret.args.positions = << <<"gripper", ArmMin>> >>
    /\ ret.args.fail = {} /\ ret.args.present["gripper"] = 1
    /\ arm[ret.arm].port_handler = "open"
    /\ tx[ret.arm][Len(tx[ret.arm])].op = "sleep"
    /\ tx[ret.arm][Len(tx[ret.arm])].num = 3 /\ tx[ret.arm][Len(tx[ret.arm])].den = 1

\* the joint names in the configuration handed to the move operation held in ret
NamedJoints ==
    CASE ret.op \in {"move_joints", "move_to"} -> Keys(ret.args.positions)
      [] ret.op = "smooth_move" -> Keys(ret.args.target)
      [] ret.op = "execute_trajectory" ->
            UNION {Keys(ret.args.trajectory[k]) : k \in 1..Len(ret.args.trajectory)}
      [] OTHER -> {}

\* the call held in ret was made on an arm whose port is open
OnOpenPort == ret.arm \in Arms /\ arm[ret.arm].port_handler = "open"

\* C16: every move operation (move_joints, move_to, execute_trajectory, smooth_move) given, on
\* a connected arm, a configuration that names a joint outside the six fixed joints fails
\* with an error; the unknown joint is never silently ignored.
C16_UnknownJointFails ==
    (OnOpenPort /\ NamedJoints \ JointSet # {}) => ret.err # "none"

\* the arms that hold an open port handle on port p
OpenHandles(p) == {a \in Arms : port[a] = p /\ arm[a].port_handler = "open"}

\* C17: after any sequence of connect and disconnect calls, on a controller built for any two
\* ports (the same port for both arms included), at most one open port handle exists per
\* physical port.
C17_OneOpenHandlePerPort ==
    \A p \in Ports : Cardinality(OpenHandles(p)) <= 1

\* execute_trajectory has returned; Log is what it issued
Executed == ret.op = "execute_trajectory"

Log == tx[ret.arm]

\* where waypoint k of the trajectory begins in the log of a call that ran to its end: after
\* the torque and speed writes of the six joints, and after each earlier waypoint's writes and sleep
RECURSIVE WaypointStart(_, _)
WaypointStart(trajectory, k) ==
    IF k = 1 THEN 2 * Len(JOINTS) + 1
    ELSE WaypointStart(trajectory, k - 1) + Len(trajectory[k - 1]) + 1

\* C18: execute_trajectory applies the waypoints strictly in index order: after the torque and
\* speed writes, the log is waypoint 1's goal-position writes (one per joint, in the waypoint's
\* order, each the joint's position brought into its safe range), one sleep of dt, then
\* waypoint 2's, and so on to the last, with nothing skipped, repeated or added.
C18_WaypointsInOrder ==
    (Executed /\ ret.err = "none") =>
        LET t == ret.args.trajectory
        IN  /\ Len(Log) = WaypointStart(t, Len(t) + 1) - 1
            /\ \A k \in 1..(2 * Len(JOINTS)) : Log[k].op \in {"write1", "write2"} /\ Log[k].addr # ADDR_GOAL_POSITION
            /\ \A k \in 1..Len(t) :
                /\ \A m \in 1..Len(t[k]) :
                    LET w == Log[WaypointStart(t, k) + m - 1]
                    IN  /\ w.op = "write2" /\ w.addr = ADDR_GOAL_POSITION
                        /\ w.id = JOINT_IDS[t[k][m][1]]
                        /\ InSafeRange(t[k][m][1], w.value)
                        /\ (InSafeRange(t[k][m][1], t[k][m][2]) => w.value = t[k][m][2])
                /\ LET z == Log[WaypointStart(t, k) + Len(t[k])]
                   IN  z.op = "sleep" /\ z.num = ret.args.dt[1] /\ z.den = ret.args.dt[2]

\* a trajectory of three waypoints (two joints, none, one joint) has been executed: 12 torque
\* and speed writes, then 2 goal writes, sleep, sleep, 1 goal write, sleep
C18_Witness ==
    /\ Executed /\ ret.err = "none"
    /\ Len(ret.args.trajectory) = 3 /\ Len(ret.args.trajectory[1]) = 2 /\ Len(ret.args.trajectory[2]) = 0
    /\ ret.args.dt = <<1, 50>>
    /\ Len(Log) = 18
    /\ Log[13].value = HomePosition /\ Log[14].value = GripperMax
    /\ Log[15].op = "sleep" /\ Log[16].op = "sleep"
    /\ Log[17].value = ArmMax /\ Log[18].op = "sleep"

\* on an open port, the bus answered the write at Log[ret.args.fault.at] with the result r
WriteAnswered(r) == Executed /\ OnOpenPort /\ ret.args.fault.at > 0 /\ ret.args.fault.result = r

\* C19: in execute_trajectory, when the goal-position write of one joint fails in some
\* waypoint, the failure is logged, and the writes of the remaining joints of the waypoint
\* and of all later waypoints are still issued.
C19_WriteFailureLogged ==
    (WriteAnswered("COMM_RX_TIMEOUT") /\ Log[ret.args.fault.at].addr = ADDR_GOAL_POSITION /\ ret.err = "none") =>
        /\ \E k \in (ret.args.fault.at + 1)..Len(Log) : Log[k].op = "print"
        /\ Len(Log) >= WaypointStart(ret.args.trajectory, Len(ret.args.trajectory) + 1) - 1

\* C20: in execute_trajectory, once a bus write reports that the connection itself is gone,
\* the error reaches the caller and no later waypoint is written: no goal-position write
\* follows the sleep that ends the waypoint in which (or before which) the write was made.
C20_AbortOnConnectionLost ==
    WriteAnswered("COMM_TX_FAIL") =>
        /\ ret.err # "none"
        /\ \A k \in GoalWrites(ret.arm) :
            ~ \E z \in Sleeps(ret.arm) : ret.args.fault.at < z /\ z < k

\* the joints whose read did not answer in the read_state call held in ret
FailedReads == IF arm[ret.arm].port_handler = "open" THEN ret.args.fail ELSE JointSet

\* C5: on an instance that has its packet handler, for every set F of joints whose read fails,
\* read_state issues one read of the present position for each of the six joints, raises no
\* error, and returns the positions of exactly the joints not in F, as the servos reported them.
C5_ReadStatePartial ==
    (ret.op = "read_state" /\ arm[ret.arm].packet_handler # None) =>
        /\ ret.err = "none"
        /\ Len(tx[ret.arm]) = Len(JOINTS)
        /\ \A k \in 1..Len(JOINTS) :
            /\ tx[ret.arm][k].op = "read2"
            /\ tx[ret.arm][k].id = JOINT_IDS[JOINTS[k]]
            /\ tx[ret.arm][k].addr = ADDR_PRESENT_POSITION
        /\ Keys(ret.value) = JointSet \ FailedReads
        /\ \A j \in Keys(ret.value) : Get(ret.value, j) = ret.args.present[j]

\* read_state has returned on an open port with 2 joints failing: 6 reads, 4 positions
C5_Witness ==
    /\ ret.op = "read_state" /\ ret.err = "none"
    /\ arm[ret.arm].port_handler = "open"
    /\ Cardinality(ret.args.fail) = 2
    /\ Len(tx[ret.arm]) = 6
    /\ Len(ret.value) = 4

\* the connects DualArmController.connect made that returned v
ConnectsReturning(v) == {ret.value.calls[k][1] : k \in {m \in 1..Len(ret.value.calls) : ret.value.calls[m][2] = v}}

\* C6: DualArmController.connect returns True if and only if both the leader's and the
\* follower's connect succeeded (and then both ports are open), and False when either failed.
C6_ConnectBoth ==
    ret.op = "dual_connect" =>
        /\ ret.value.returned = (ConnectsReturning(TRUE) = Arms)
        /\ (ConnectsReturning(FALSE) # {} => ret.value.returned = FALSE)
        /\ (ret.value.returned => \A a \in Arms : arm[a].port_handler = "open" /\ arm[a].connected)

\* the leader's connect succeeded, the follower's failed, and connect returned False
C6_Witness ==
    /\ ret.op = "dual_connect"
    /\ ret.value.calls = << <<"leader", TRUE>>, <<"follower", FALSE>> >>
    /\ ret.value.returned = FALSE

CoordinatedOps == {"mirror_move", "synchronized_wave"}

\* the thread of arm a has issued everything its handler issues
Finished(a) == task[a].pc = "ended" /\ task[a].sent = Len(task[a].plan.tx) /\ Len(tx[a]) = Len(task[a].plan.tx)

\* C7: in mirror_move and synchronized_wave both threads have been started when the first is
\* awaited, and when the call has returned both threads have ended, with nothing left to issue.
C7_StartBothJoinBoth ==
    /\ (coord.pc \in {"join_t1", "join_t2"} => \A a \in Arms : task[a].pc \in {"running", "ended"})
    /\ ((coord.pc = "idle" /\ ret.op \in CoordinatedOps) => \A a \in Arms : Finished(a))

\* mirror_move has returned after both arms were sent goal positions by their own threads
C7_Witness ==
    /\ coord.pc = "idle" /\ ret.op = "mirror_move"
    /\ \A a \in Arms : Finished(a) /\ GoalWrites(a) # {}

\* C8: when DualArmController.connect has returned False, a mirror_move issued afterwards
\* starts no thread and issues no bus transaction on either arm.
C8_NoMoveAfterFailedConnect ==
    (ret.op = "dual_connect" /\ ret.value.returned = FALSE /\ coord.op = "mirror_move") =>
        \A a \in Arms : task[a].pc \in {"none", "created"} /\ tx[a] = <<>>

\* C9: if either arm's thread ended with an error during mirror_move, mirror_move reports a
\* failure to its caller.
C9_AggregateFailure ==
    (coord.pc = "idle" /\ ret.op = "mirror_move" /\ \E a \in Arms : task[a].plan.err # "none") =>
        ret.err # "none"

\* C10: disconnect raises no error on a never-connected, a connected or an already
\* disconnected instance; afterwards connected is False and the port is not open; and a
\* disconnect that directly follows a disconnect of the same instance changes nothing.
C10_DisconnectIdempotent ==
    /\ [](ret.op = "disconnect" =>
            /\ ret.err = "none"
            /\ arm[ret.arm].connected = FALSE
            /\ arm[ret.arm].port_handler # "open")
    /\ [][(ret.op = "disconnect" /\ ret'.op = "disconnect" /\ ret'.arm = ret.arm) => arm' = arm]_vars

\* disconnect has returned on an instance whose port was already closed, and left it as it was
C10_Witness ==
    /\ ret.op = "disconnect" /\ ret.err = "none"
    /\ ret.args.self = [port_handler |-> "closed", packet_handler |-> "created", connected |-> FALSE]
    /\ arm[ret.arm] = ret.args.self


\* a native move has returned: move_joints, or move_to (go_home is move_to with all six joints)
NativeMove == ret.op \in {"move_joints", "move_to", "go_home"}

\* the joints of the configuration the native move was given
NativeTarget == IF ret.op = "go_home" THEN JointSet ELSE Keys(ret.args.positions)

\* the goal-position writes the call held in ret made to joint j
GoalWritesTo(j) == {k \in GoalWrites(ret.arm) : Log[k].id = JOINT_IDS[j]}

\* C21: in a native move (move_to / move_joints) the moving-speed register of a joint is
\* written right before its goal-position register, and the goal-position register is written
\* exactly once per target joint per call (and never for another joint).
C21_SpeedBeforeGoalOnce ==
    NativeMove =>
        /\ \A k \in GoalWrites(ret.arm) :
            /\ k > 1
            /\ Log[k - 1].op = "write2" /\ Log[k - 1].addr = ADDR_MOVING_SPEED
            /\ Log[k - 1].id = Log[k].id
        /\ \A j \in JointSet :
            /\ Cardinality(GoalWritesTo(j)) <= 1
            /\ (j \notin NativeTarget => GoalWritesTo(j) = {})
            /\ ((ret.err = "none" /\ j \in NativeTarget) => Cardinality(GoalWritesTo(j)) = 1)

\* move_to has returned for a target of two joints: speed, goal, speed, goal, then the state read
C21_Witness ==
    /\ ret.op = "move_to" /\ ret.err = "none"
    /\ NativeTarget = {"shoulder_pan", "gripper"}
    /\ Cardinality(GoalWrites(ret.arm)) = 2
    /\ Log[1].addr = ADDR_MOVING_SPEED /\ Log[2].addr = ADDR_GOAL_POSITION
    /\ Log[3].addr = ADDR_MOVING_SPEED /\ Log[4].addr = ADDR_GOAL_POSITION

\* the torque-enable writes (value 1) among the transactions of arm a
TorqueOnWrites(a) ==
    {k \in 1..Len(tx[a]) : tx[a][k].op = "write1" /\ tx[a][k].addr = ADDR_TORQUE_ENABLE /\ tx[a][k].value = 1}

\* C22: in every move operation (move_to, execute_trajectory, smooth_move, wave) a joint goes
\* from Idle to TorqueEnabled before it is Moving: the move makes no goal-position write to a
\* joint before it has written torque-enable to that joint.
C22_TorqueBeforeGoal ==
    (OnOpenPort /\ ret.op \in {"move_to", "execute_trajectory", "smooth_move", "wave"}) =>
        \A k \in GoalWrites(ret.arm) :
            \E m \in TorqueOnWrites(ret.arm) : m < k /\ Log[m].id = Log[k].id

\* a coordinated operation is under way or has just returned: tx holds what its threads issued
Coordinated == coord.pc # "idle" \/ ret.op \in CoordinatedOps

\* C23: during mirror_move and synchronized_wave, in every interleaving, each connection's
\* transactions are issued by one thread only: the leader's by t1, the follower's by t2.
C23_OneTaskPerConnection ==
    Coordinated => \A a \in Arms : \A k \in 1..Len(tx[a]) : tx[a][k].by = ThreadOf(a)

\* both threads are in the middle of their sequences, each with transactions on its own connection
C23_Witness ==
    /\ coord.pc = "join_t1"
    /\ \A a \in Arms :
        /\ task[a].pc = "running"
        /\ 0 < task[a].sent /\ task[a].sent < Len(task[a].plan.tx)
        /\ tx[a] # <<>>

\* C24: a move leaves every joint omitted from its target unchanged: move_to,
\* execute_trajectory and smooth_move write no register (torque enable, moving speed, goal
\* position) of a joint that is absent from the configuration or waypoints they were given.
C24_OmittedJointsUntouched ==
    (OnOpenPort /\ ret.op \in {"move_to", "execute_trajectory", "smooth_move"}) =>
        \A k \in 1..Len(Log) :
            Log[k].op \in {"write1", "write2"} => JOINTS[Log[k].id] \in NamedJoints

\* C25: for every duration passed to smooth_move, the delay between successive waypoints is
\* at least 1/50 second.
C25_RateBounded ==
    (OnOpenPort /\ ret.op = "smooth_move") =>
        \A k \in Sleeps(ret.arm) : UpdateRateHz * Log[k].num >= Log[k].den

\* C26: for every steps >= 1 and every accel_fraction in (0, 0.5], trapezoidal_velocity
\* completes without error and its constant-velocity phase has positive length:
\* steps - 2 * accel_steps > 0.
C26_ConstantPhasePositive ==
    (fn.pc = "return" /\ fn.name = "trapezoidal_velocity") =>
        /\ fn.result.err = "none"
        /\ fn.args.steps - 2 * accel_steps_of(fn.args.steps, fn.args.accel_fraction) > 0

\* C27: a mirror_move once started runs to completion: provided every bus call returns, in
\* every interleaving each thread issues its finitely many transactions and mirror_move
\* returns, also when a thread ends with an error.
C27_MirrorMoveReturns ==
    (coord.op = "mirror_move" /\ coord.pc = "start_t1") ~> (coord.pc = "idle" /\ ret.op = "mirror_move")

\* mirror_move has returned after the leader's thread wrote its goals and the follower's raised
C27_Witness ==
    /\ coord.pc = "idle" /\ ret.op = "mirror_move"
    /\ task["leader"].plan.err = "none" /\ GoalWrites("leader") # {}
    /\ task["follower"].plan.err = "AttributeError"
    /\ \A a \in Arms : task[a].pc = "ended"

\* smooth_move with one of the three profiles has been called on an instance that connect() was called on
Smoothed == ret.op = "smooth_move" /\ ret.args.profile \in Profiles /\ arm[ret.arm].packet_handler # None

\* the joints whose position read answered in the call that returned: the start snapshot
Snapshot == IF arm[ret.arm].port_handler = "open" THEN JointSet \ ret.args.fail ELSE {}

\* the value of the last goal-position write to joint j in the log
LastGoal(j) == Log[CHOOSE k \in GoalWritesTo(j) : \A m \in GoalWritesTo(j) : m <= k].value

\* C28: for each of the three profiles smooth_move plans at least 10 steps (so at least 11
\* waypoints, one sleep each), the last goal-position value it writes to each joint that is in
\* the target and in the start snapshot is clamp(joint, target[joint]), and a target joint
\* whose position read failed gets no goal-position write at all.
C28_SmoothMoveReachesTarget ==
    Smoothed =>
        /\ ret.err = "none"
        /\ Cardinality(Sleeps(ret.arm)) >= MinSteps + 1
        /\ \A j \in Keys(ret.args.target) \cap JointSet :
            IF j \in Snapshot
            THEN GoalWritesTo(j) # {} /\ LastGoal(j) = clamp_position(j, Get(ret.args.target, j))
            ELSE GoalWritesTo(j) = {}

\* a trapezoidal smooth_move on an open port whose gripper read failed: shoulder_pan, asked
\* to go past its limit, was last sent to the limit, and the gripper was sent nowhere
C28_Witness ==
    /\ Smoothed /\ ret.args.profile = "trapezoidal"
    /\ Snapshot = JointSet \ {"gripper"}
    /\ Keys(ret.args.target) = {"shoulder_pan", "gripper"}
    /\ Get(ret.args.target, "shoulder_pan") > ArmMax
    /\ GoalWritesTo("shoulder_pan") # {} /\ LastGoal("shoulder_pan") = ArmMax
    /\ GoalWritesTo("gripper") = {}

\* C29: whenever DualArmController.connect returns False no port is left open: afterwards
\* neither arm has connected = True or an open port handle.
C29_NoPortLeftOpen ==
    (ret.op = "dual_connect" /\ ret.value.returned = FALSE) =>
        \A a \in Arms : arm[a].connected = FALSE /\ arm[a].port_handler # "open"

\* the operations of SmoothMotion that use the bus
BusOps ==
    {"read_state", "set_torque", "set_speed", "move_joint", "move_joints", "move_to", "go_home",
     "execute_trajectory", "smooth_move", "wave"}

\* the reads and writes in the log of the call that returned
BusTransactions == {k \in 1..Len(Log) : Log[k].op \in {"read2", "write1", "write2"}}

\* C30: SmoothMotion issues bus transactions only while connected is True: after a failed
\* connect or after disconnect (connect() was called, connected is False), read_state,
\* set_torque, set_speed and the move operations issue no read and no write.
C30_BusOnlyWhileConnected ==
    (ret.arm \in Arms /\ ret.op \in BusOps /\ arm[ret.arm].packet_handler # None /\ arm[ret.arm].connected = FALSE) =>
        BusTransactions = {}

===========================================================================
